---- MODULE Spec2Model ----
(***************************************************************************)
(* AI News Aggregator: the collect / merge / filter / summarize / save     *)
(* pipeline of src/src/main.py and the components it drives.               *)
(*                                                                         *)
(* Text is a sequence of one-character strings, so that lower-casing,      *)
(* stripping and the word-boundary search of the relevance filter are      *)
(* computed character by character as the Python code computes them.       *)
(* A news item (a Python dict) is a TLA+ record; a key that is absent from *)
(* the dict is absent from the record's DOMAIN.                            *)
(***************************************************************************)
EXTENDS Integers, Sequences, FiniteSets, TLC

\* ------------------------------------------------------------------ bounds
\* Longest ranked id list the forum provider returns in the model.
MaxIds == 2
\* HackerNewsCollector.max_items (100 in the source), scaled to the id lists.
max_items == 2
\* ProductHuntCollector.days_back (7 in the source), scaled.
days_back == 2
\* Number of entries of TwitterCollector.AI_KEYWORDS that are searched
\* (24 in the source), scaled.
NumKeywords == 2
\* Seconds the wall clock may advance during one run.
MaxClock == 1

\* ---------------------------------------------------------- dict helpers
\* dict.get(key, default)
Get(item, key, default) == IF key \in DOMAIN item THEN item[key] ELSE default

Range(s) == {s[i] : i \in 1..Len(s)}

\* ---------------------------------------------------------- text helpers
UpperChars == <<"A","B","C","D","E","F","G","H","I","J","K","L","M",
                "N","O","P","Q","R","S","T","U","V","W","X","Y","Z">>
LowerChars == <<"a","b","c","d","e","f","g","h","i","j","k","l","m",
                "n","o","p","q","r","s","t","u","v","w","x","y","z">>

\* str.lower() on one character
LowerChar(c) ==
    IF \E i \in 1..26 : UpperChars[i] = c
    THEN LowerChars[CHOOSE i \in 1..26 : UpperChars[i] = c]
    ELSE c

\* str.lower()
Lower(text) == [i \in 1..Len(text) |-> LowerChar(text[i])]

\* Characters of the model's alphabet that the regex class \w rejects; every
\* other character used (letters, digits, kana, kanji) is a word character.
\* A character outside ASCII is written as its code point, "U+4EBA".
NonWordChars == {" ", "\t", "\n", ",", ".", "-", "#", "@", "/", ":", "!", "?"}
IsWordChar(c) == c \notin NonWordChars

\* Characters str.split() and str.strip() treat as whitespace.
Whitespace == {" ", "\t", "\n"}

\* The regex assertion \b before position p of text (1 <= p <= Len(text)+1):
\* exactly one of text[p-1], text[p] is a word character; outside the string
\* counts as a non-word character.
WordBoundary(text, p) ==
    LET before == p > 1 /\ IsWordChar(text[p - 1])
        after  == p <= Len(text) /\ IsWordChar(text[p])
    IN  before # after

\* re.compile(r'\b' + re.escape(keyword.lower()) + r'\b', re.IGNORECASE):
\* the compiled pattern is represented by the lower-cased keyword.
CompilePattern(keyword) == Lower(keyword)

\* pattern.search(text): the pattern occurs somewhere in text, compared
\* case-insensitively, with a word boundary at both its ends.
PatternSearch(pattern, text) ==
    \E i \in 1..(Len(text) - Len(pattern) + 1) :
        /\ WordBoundary(text, i)
        /\ WordBoundary(text, i + Len(pattern))
        /\ Lower(SubSeq(text, i, i + Len(pattern) - 1)) = pattern

\* ------------------------------------------------------- relevance filter
\* AIContentFilter.AI_KEYWORDS
AI_KEYWORDS == <<
    <<"a","r","t","i","f","i","c","i","a","l"," ","i","n","t","e","l","l","i","g","e","n","c","e">>,
    <<"a","i"," ">>,
    <<"a","i",",">>,
    <<"a","i",".">>,
    <<"a","i","-">>,
    <<"a",".","i",".">>,
    <<"m","a","c","h","i","n","e"," ","l","e","a","r","n","i","n","g">>,
    <<"m","l"," ">>,
    <<"m","l",",">>,
    <<"m","l",".">>,
    <<"d","e","e","p"," ","l","e","a","r","n","i","n","g">>,
    <<"d","l"," ">>,
    <<"d","l",",">>,
    <<"d","l",".">>,
    <<"n","e","u","r","a","l"," ","n","e","t","w","o","r","k">>,
    <<"n","e","u","r","a","l"," ","n","e","t","s">>,
    <<"a","l","g","o","r","i","t","h","m">>,
    <<"c","o","m","p","u","t","e","r"," ","v","i","s","i","o","n">>,
    <<"g","p","t">>,
    <<"c","h","a","t","g","p","t">>,
    <<"g","p","t","-","4">>,
    <<"g","p","t","-","3">>,
    <<"l","l","m">>,
    <<"l","a","r","g","e"," ","l","a","n","g","u","a","g","e"," ","m","o","d","e","l">>,
    <<"c","l","a","u","d","e">>,
    <<"g","e","m","i","n","i">>,
    <<"m","i","d","j","o","u","r","n","e","y">>,
    <<"d","a","l","l","e">>,
    <<"d","a","l","l","-","e">>,
    <<"s","t","a","b","l","e"," ","d","i","f","f","u","s","i","o","n">>,
    <<"o","p","e","n","a","i">>,
    <<"a","n","t","h","r","o","p","i","c">>,
    <<"m","e","t","a"," ","a","i">>,
    <<"g","o","o","g","l","e"," ","b","a","r","d">>,
    <<"m","i","s","t","r","a","l">>,
    <<"l","l","a","m","a">>,
    <<"p","r","o","m","p","t"," ","e","n","g","i","n","e","e","r">>,
    <<"f","i","n","e","-","t","u","n">>,
    <<"t","r","a","i","n","i","n","g">>,
    <<"d","a","t","a","s","e","t">>,
    <<"t","r","a","n","s","f","o","r","m","e","r">>,
    <<"d","i","f","f","u","s","i","o","n"," ","m","o","d","e","l">>,
    <<"g","a","n"," ">>,
    <<"g","a","n","s">>,
    <<"g","e","n","e","r","a","t","i","v","e">>,
    <<"n","l","p">>,
    <<"n","a","t","u","r","a","l"," ","l","a","n","g","u","a","g","e"," ","p","r","o","c","e","s","s","i","n","g">>,
    <<"c","o","m","p","u","t","e","r"," ","v","i","s","i","o","n">>,
    <<"s","e","m","a","n","t","i","c">>,
    <<"e","m","b","e","d","d","i","n","g">>,
    <<"v","e","c","t","o","r">>,
    <<"t","e","n","s","o","r">>,
    <<"l","a","n","g","u","a","g","e"," ","m","o","d","e","l">>,
    <<"f","o","u","n","d","a","t","i","o","n"," ","m","o","d","e","l">>,
    <<"a","i"," ","a","g","e","n","t">>,
    <<"a","i"," ","a","s","s","i","s","t","a","n","t">>,
    <<"a","u","t","o","n","o","m","o","u","s">>,
    <<"a","u","t","o","m","a","t","i","o","n">>,
    <<"r","e","c","o","m","m","e","n","d","a","t","i","o","n"," ","s","y","s","t","e","m">>,
    <<"p","e","r","s","o","n","a","l","i","z","a","t","i","o","n">>,
    <<"f","a","c","e"," ","r","e","c","o","g","n","i","t","i","o","n">>,
    <<"s","p","e","e","c","h"," ","r","e","c","o","g","n","i","t","i","o","n">>,
    <<"v","o","i","c","e"," ","a","s","s","i","s","t","a","n","t">>,
    <<"c","o","n","v">>,
    <<"t","r","a","n","s","f","o","r","m","e","r","s">>,
    <<"a","t","t","e","n","t","i","o","n"," ","m","e","c","h","a","n","i","s","m">>,
    <<"t","r","a","n","s","f","e","r"," ","l","e","a","r","n","i","n","g">>,
    <<"r","e","i","n","f","o","r","c","e","m","e","n","t"," ","l","e","a","r","n","i","n","g">>,
    <<"s","e","l","f","-","s","u","p","e","r","v","i","s","e","d">>,
    <<"u","n","s","u","p","e","r","v","i","s","e","d">>,
    <<"m","u","l","t","i","m","o","d","a","l">>,
    <<"s","e","m","a","n","t","i","c"," ","s","e","a","r","c","h">>,
    <<"v","e","c","t","o","r"," ","d","a","t","a","b","a","s","e">>,
    <<"U+4EBA","U+5DE5","U+77E5","U+80FD">>,
    <<"a","i">>,
    <<"U+30A8","U+30FC","U+30A2","U+30A4">>,
    <<"U+6A5F","U+68B0","U+5B66","U+7FD2">>,
    <<"U+30C7","U+30A3","U+30FC","U+30D7","U+30E9","U+30FC","U+30CB","U+30F3","U+30B0">>,
    <<"U+30CB","U+30E5","U+30FC","U+30E9","U+30EB","U+30CD","U+30C3","U+30C8","U+30EF","U+30FC","U+30AF">>,
    <<"U+5927","U+898F","U+6A21","U+8A00","U+8A9E","U+30E2","U+30C7","U+30EB">>,
    <<"U+751F","U+6210","a","i">>,
    <<"U+751F","U+6210","U+30E2","U+30C7","U+30EB">>
>>

\* AIContentFilter.__init__: min_score default
min_score == 5

\* AIContentFilter.__init__: self.keyword_patterns
keyword_patterns == [k \in 1..Len(AI_KEYWORDS) |-> CompilePattern(AI_KEYWORDS[k])]

\* f"{item.get('title', '')} {item.get('content', '')}".lower()
CombinedText(item) ==
    Lower(Get(item, "title", <<>>) \o <<" ">> \o Get(item, "content", <<>>))

\* any(pattern.search(combined_text) for pattern in self.keyword_patterns)
IsAIRelated(item) ==
    LET combined_text == CombinedText(item)
    IN  \E k \in 1..Len(keyword_patterns) :
            PatternSearch(keyword_patterns[k], combined_text)

\* BelowScoreFloor with <= for <: a record exactly at the floor is rejected.
BelowScoreFloor_Inclusive(item) == Get(item, "score", 0) <= min_score

\* The score floor: item.get('score', 0) < self.min_score -> continue
BelowScoreFloor(item) == Get(item, "score", 0) < min_score

RECURSIVE FilterLoop(_, _)
\* The for loop of AIContentFilter.filter over news_items, ai_related_news
\* being the accumulator.
FilterLoop(news_items, ai_related_news) ==
    IF news_items = <<>> THEN ai_related_news
    ELSE LET item == Head(news_items) IN
         IF BelowScoreFloor(item)
         THEN FilterLoop(Tail(news_items), ai_related_news)
         ELSE IF IsAIRelated(item)
              THEN FilterLoop(Tail(news_items), Append(ai_related_news, item))
              ELSE FilterLoop(Tail(news_items), ai_related_news)

RECURSIVE FilterLoop_Insert(_, _)
\* The filter loop with insert(0, item) for append(item): the kept records
\* come out in reverse order.
FilterLoop_Insert(news_items, ai_related_news) ==
    IF news_items = <<>> THEN ai_related_news
    ELSE LET item == Head(news_items) IN
         IF ~BelowScoreFloor(item) /\ IsAIRelated(item)
         THEN FilterLoop_Insert(Tail(news_items), <<item>> \o ai_related_news)
         ELSE FilterLoop_Insert(Tail(news_items), ai_related_news)

Filter_Insert(news_items) == FilterLoop_Insert(news_items, <<>>)

\* AIContentFilter.filter
Filter(news_items) == FilterLoop(news_items, <<>>)

\* ------------------------------------------------------ calls and results
\* An outbound call either returns a body or raises (network, auth, HTTP
\* status, timeout).
Response(body) == [ok |-> TRUE, body |-> body]
Failure == [ok |-> FALSE]

\* What a Python call does: it returns a value or an exception leaves it.
Returned(value) == [raised |-> FALSE, value |-> value]
Raised == [raised |-> TRUE]

\* Values os.getenv can give for a credential: None (variable unset), the
\* empty string, or a key.
None == "<None>"
EnvValues == {None, "", "key"}
\* Python truthiness of such a value
Truthy(v) == v \notin {None, ""}

Min(a, b) == IF a < b THEN a ELSE b

\* What a rate-limited loop does towards the outside, in the order it does
\* it: an outbound call (arg tells which) or a time.sleep of some
\* milliseconds.
CallEvent(arg) == [kind |-> "call", arg |-> arg]
SleepEvent(ms) == [kind |-> "sleep", arg |-> ms]

\* -------------------------------------------- forum-ranking (Hacker News)
\* JSON null, which the provider serves for a deleted item.
JsonNull == [json_null |-> TRUE]

\* Items the provider serves at /item/<id>.json in the modelled world.
HNIds == 1..5
HNItem(id) ==
    CASE id = 1 -> [type |-> "story", url |-> "http://a", title |-> <<"A","I">>,
                    score |-> 5, time |-> 1700000000, descendants |-> 3]
      [] id = 2 -> [type |-> "story", url |-> "http://b", title |-> <<"g","p","t","-","4"," ","s","a","i","d">>,
                    score |-> 4, time |-> 1700000100, descendants |-> 0]
      [] id = 3 -> [type |-> "story", title |-> <<"A","s","k",":"," ","a","i","?">>, text |-> <<"a","n"," ","a","i",".">>,
                    score |-> 9, time |-> 1700000200, descendants |-> 7]
      [] id = 4 -> [type |-> "job", url |-> "http://j", title |-> <<"M","L"," ","j","o","b">>,
                    score |-> 1, time |-> 1700000300]
      [] OTHER  -> JsonNull

\* Ranked id lists the provider may serve: ids without repetition.
IdLists ==
    {s \in UNION {[1..n -> HNIds] : n \in 0..MaxIds} :
        \A a, b \in 1..Len(s) : a # b => s[a] # s[b]}

RECURSIVE DictFromKeysLoop(_, _)
DictFromKeysLoop(keys, acc) ==
    IF keys = <<>> THEN acc
    ELSE IF Head(keys) \in Range(acc)
         THEN DictFromKeysLoop(Tail(keys), acc)
         ELSE DictFromKeysLoop(Tail(keys), Append(acc, Head(keys)))

\* list(dict.fromkeys(ids)): first occurrence of each id, in order
DictFromKeys(keys) == DictFromKeysLoop(keys, <<>>)

\* The dict appended to stories for an accepted item.
HNStory(story, story_id) ==
    [title          |-> Get(story, "title", <<>>),
     url            |-> Get(story, "url", ""),
     content        |-> Get(story, "text", <<>>),
     source         |-> "Hacker News",
     score          |-> Get(story, "score", 0),
     timestamp      |-> Get(story, "time", 0),
     comments_count |-> Get(story, "descendants", 0),
     hn_id          |-> story_id]

\* if story and 'url' in story and story.get('type') == 'story'
HNAccepts(story) ==
    /\ story # JsonNull
    /\ "url" \in DOMAIN story
    /\ Get(story, "type", None) = "story"

RECURSIVE HNItemLoop(_, _, _)
\* The for loop over story_ids; failing is the set of ids whose _get_item
\* call raises. The inner except logs and goes on to the next id.
HNItemLoop(story_ids, failing, stories) ==
    IF story_ids = <<>> THEN stories
    ELSE LET story_id == Head(story_ids) IN
         IF story_id \in failing
         THEN HNItemLoop(Tail(story_ids), failing, stories)
         ELSE LET story == HNItem(story_id) IN
              IF HNAccepts(story)
              THEN HNItemLoop(Tail(story_ids), failing,
                              Append(stories, HNStory(story, story_id)))
              ELSE HNItemLoop(Tail(story_ids), failing, stories)

\* time.sleep(0.1), in milliseconds
hn_sleep_ms == 100

RECURSIVE HNItemLoopCalls(_, _, _)
\* The calls and sleeps of the loop over story_ids: _get_item is called for
\* every id; time.sleep is the last statement of the try block, reached
\* when _get_item returned, whether or not the item was accepted.
HNItemLoopCalls(story_ids, failing, trace) ==
    IF story_ids = <<>> THEN trace
    ELSE LET story_id == Head(story_ids)
             called   == Append(trace, CallEvent(story_id))
         IN  IF story_id \in failing
             THEN HNItemLoopCalls(Tail(story_ids), failing, called)
             ELSE HNItemLoopCalls(Tail(story_ids), failing,
                                  Append(called, SleepEvent(hn_sleep_ms)))

\* story_ids = list(dict.fromkeys(top + new))[:self.max_items]
HNStoryIds(top_story_ids, new_story_ids) ==
    LET combined_ids == DictFromKeys(top_story_ids \o new_story_ids)
    IN  SubSeq(combined_ids, 1, Min(max_items, Len(combined_ids)))

\* HNCollect without the outer try/except: a failed id-list request raises.
HNCollect_NoOuterExcept(top, new, failing) ==
    IF ~top.ok \/ ~new.ok
    THEN Raised
    ELSE Returned(HNItemLoop(HNStoryIds(top.body, new.body), failing, <<>>))

\* HackerNewsCollector.collect: top and new are the responses of the two
\* _get_story_ids calls, failing the ids whose detail fetch raises.
HNCollect(top, new, failing) ==
    IF ~top.ok \/ ~new.ok
    THEN Returned(<<>>)
    ELSE Returned(HNItemLoop(HNStoryIds(top.body, new.body), failing, <<>>))

\* The calls and sleeps of the detail loop of one collect()
HNCollectCalls(top, new, failing) ==
    IF ~top.ok \/ ~new.ok THEN <<>>
    ELSE HNItemLoopCalls(HNStoryIds(top.body, new.body), failing, <<>>)

\* ------------------------------------------- product-launch (Product Hunt)
\* datetime.strptime(s, '%Y-%m-%dT%H:%M:%S.%fZ').timestamp(), truncated by
\* int(): the epoch seconds of a string in that format; any other string
\* (the '' default of a missing created_at, another date format) raises
\* ValueError.
StrptimeTimestamp(s) ==
    CASE s = "2024-05-01T10:00:00.000Z" -> Returned(1714557600)
      [] s = "2024-05-02T10:00:00.000Z" -> Returned(1714644000)
      [] s = "2024-05-03T10:00:00.000Z" -> Returned(1714730400)
      [] OTHER -> Raised

\* Posts the provider may list for the day day_offset days back.
PHGoodPost(day_offset) ==
    CASE day_offset = 0 ->
            [id |-> 100, name |-> <<"s","a","i","d">>, tagline |-> <<"p","a","i","d">>,
             discussion_url |-> "http://p0", votes_count |-> 50,
             comments_count |-> 2, created_at |-> "2024-05-03T10:00:00.000Z"]
      [] day_offset = 1 ->
            [id |-> 101, name |-> <<"m","e","t","a">>, tagline |-> <<"a","i">>,
             discussion_url |-> "http://a", votes_count |-> 7,
             comments_count |-> 0, created_at |-> "2024-05-02T10:00:00.000Z"]
      [] OTHER ->
            [id |-> 102, name |-> <<"G","e","m","i","n","i">>, tagline |-> <<>>,
             votes_count |-> 5,
             comments_count |-> 1, created_at |-> "2024-05-01T10:00:00.000Z"]

\* A post whose created_at is not in the format collect() parses.
PHOddPost(day_offset) ==
    [id |-> 200 + day_offset, name |-> <<"L","L","M">>, tagline |-> <<"l","l","m">>,
     discussion_url |-> "http://odd", votes_count |-> 20,
     comments_count |-> 0, created_at |-> "2024-05-01T03:00:00.000-07:00"]

\* A post without created_at.
PHUndatedPost(day_offset) ==
    [id |-> 300 + day_offset, name |-> <<"G","P","T">>, tagline |-> <<"g","p","t">>,
     discussion_url |-> "http://und", votes_count |-> 20,
     comments_count |-> 0]

\* Responses _get_posts_for_day may get for one day.
PHDayResponses(day_offset) ==
    {Failure,
     Response(<<>>),
     Response(<<PHGoodPost(day_offset)>>),
     Response(<<PHGoodPost(day_offset), PHOddPost(day_offset)>>),
     Response(<<PHUndatedPost(day_offset), PHGoodPost(day_offset)>>)}

\* The dict built for one post; strptime may raise.
PHNewsItem(post) ==
    LET ts == StrptimeTimestamp(Get(post, "created_at", ""))
    IN  IF ts.raised THEN Raised
        ELSE Returned(
            [title          |-> Get(post, "name", <<>>),
             url            |-> Get(post, "discussion_url", ""),
             content        |-> Get(post, "tagline", <<>>),
             source         |-> "Product Hunt",
             score          |-> Get(post, "votes_count", 0),
             timestamp      |-> ts.value,
             comments_count |-> Get(post, "comments_count", 0),
             ph_id          |-> Get(post, "id", None)])

RECURSIVE PHDayLoop(_, _, _)
\* for day_offset in range(self.days_back): posts.extend(day_posts).
\* days[d + 1] is the response for day_offset d; a failed request raises.
PHDayLoop(days, day_offset, posts) ==
    IF day_offset >= days_back THEN Returned(posts)
    ELSE IF ~days[day_offset + 1].ok THEN Raised
         ELSE PHDayLoop(days, day_offset + 1, posts \o days[day_offset + 1].body)

RECURSIVE PHPostLoop(_, _)
\* for post in posts: news_items.append({...}); nothing catches inside the loop.
PHPostLoop(posts, news_items) ==
    IF posts = <<>> THEN Returned(news_items)
    ELSE LET item == PHNewsItem(Head(posts)) IN
         IF item.raised THEN Raised
         ELSE PHPostLoop(Tail(posts), Append(news_items, item.value))

\* The body of the try block of ProductHuntCollector.collect
PHTryBody(days) ==
    LET posts == PHDayLoop(days, 0, <<>>)
    IN  IF posts.raised THEN Raised ELSE PHPostLoop(posts.value, <<>>)

\* ProductHuntCollector.collect
PHCollect(api_key, days) ==
    IF ~Truthy(api_key) THEN Returned(<<>>)
    ELSE LET body == PHTryBody(days)
         IN  IF body.raised THEN Returned(<<>>) ELSE body

\* ------------------------------------------------ social-stream (Twitter)
\* TwitterCollector.AI_KEYWORDS: one search is issued per entry. The model
\* searches the first NumKeywords of them.
TWITTER_AI_KEYWORDS == <<
    <<"a","r","t","i","f","i","c","i","a","l"," ","i","n","t","e","l","l","i","g","e","n","c","e">>, <<"#","A","I">>, <<"#","a","r","t","i","f","i","c","i","a","l","i","n","t","e","l","l","i","g","e","n","c","e">>,
    <<"m","a","c","h","i","n","e"," ","l","e","a","r","n","i","n","g">>, <<"#","M","L">>, <<"#","m","a","c","h","i","n","e","l","e","a","r","n","i","n","g">>,
    <<"d","e","e","p"," ","l","e","a","r","n","i","n","g">>, <<"#","D","L">>, <<"#","d","e","e","p","l","e","a","r","n","i","n","g">>,
    <<"L","L","M">>, <<"U+5927","U+898F","U+6A21","U+8A00","U+8A9E","U+30E2","U+30C7","U+30EB">>, <<"#","L","L","M">>,
    <<"G","P","T">>, <<"C","h","a","t","G","P","T">>, <<"#","G","P","T">>, <<"#","C","h","a","t","G","P","T">>,
    <<"A","n","t","h","r","o","p","i","c">>, <<"C","l","a","u","d","e">>, <<"#","C","l","a","u","d","e">>,
    <<"G","e","m","i","n","i">>, <<"#","G","e","m","i","n","i">>,
    <<"A","I","U+958B","U+767A">>, <<"A","I","U+30E2","U+30C7","U+30EB">>, <<"#","A","I","U+958B","U+767A">> >>

\* Statuses the search may return in the modelled world. Tweets 1 and 2 link
\* the same article; tweet 3 carries no url entity (a media link only).
Tweet(id) ==
    CASE id = 1 ->
            [id |-> 1, full_text |-> <<"L","L","M"," "," ","n","e","w","s"," ","t",".","c","o","/","x"," ","@","b","o","b">>,
             entities |-> [urls |-> << [url |-> <<"t",".","c","o","/","x">>, expanded_url |-> "http://a"] >>,
                           user_mentions |-> << [screen_name |-> <<"b","o","b">>] >>],
             favorite_count |-> 10, retweet_count |-> 4,
             created_at |-> 1714557600, user |-> [screen_name |-> <<"a","n","n">>]]
      [] id = 2 ->
            [id |-> 2, full_text |-> <<"G","P","T"," ","t",".","c","o","/","y">>,
             entities |-> [urls |-> << [url |-> <<"t",".","c","o","/","y">>, expanded_url |-> "http://a"],
                                       [url |-> <<"t",".","c","o","/","z">>, expanded_url |-> "http://c"] >>,
                           user_mentions |-> << >>],
             favorite_count |-> 5, retweet_count |-> 0,
             created_at |-> 1714557700, user |-> [screen_name |-> <<"b","o","b">>]]
      [] OTHER ->
            [id |-> 3, full_text |-> <<" ","p","a","i","d"," ","c","h","a","i","r","s"," ">>,
             entities |-> [user_mentions |-> << >>],
             favorite_count |-> 6, retweet_count |-> 1,
             created_at |-> 1714557800, user |-> [screen_name |-> <<"c","y">>]]

\* Responses api.search_tweets may get for one keyword.
SearchResponses ==
    {Failure,
     Response(<<>>),
     Response(<<Tweet(1)>>),
     Response(<<Tweet(1), Tweet(2)>>),
     Response(<<Tweet(2), Tweet(3)>>),
     Response(<<Tweet(3), Tweet(1)>>)}

\* The credential tuples (api_key, api_secret, access_token, access_secret)
\* the environment may supply.
TwitterCredentials ==
    {<<"key", "key", "key", "key">>,
     <<None, "key", "key", "key">>,
     <<"key", "", "key", "key">>,
     <<"key", "key", None, "key">>,
     <<"key", "key", "key", None>>,
     <<None, None, None, None>>}

\* all([...]) over the four credentials
AllTruthy(values) == \A i \in 1..Len(values) : Truthy(values[i])

\* f"https://twitter.com/i/web/status/{tweet.id}"
StatusUrl(id) ==
    CASE id = 1 -> "https://twitter.com/i/web/status/1"
      [] id = 2 -> "https://twitter.com/i/web/status/2"
      [] OTHER  -> "https://twitter.com/i/web/status/3"

RECURSIVE Replace(_, _)
\* str.replace(old, ''): every non-overlapping occurrence of old, scanning
\* left to right, is removed.
Replace(text, old) ==
    IF old = <<>> \/ Len(text) < Len(old) THEN text
    ELSE IF SubSeq(text, 1, Len(old)) = old
         THEN Replace(SubSeq(text, Len(old) + 1, Len(text)), old)
         ELSE <<Head(text)>> \o Replace(Tail(text), old)

RECURSIVE SplitJoinUpTo(_, _)
SplitJoinUpTo(text, i) ==
    IF i = 0 THEN <<>>
    ELSE LET prev == SplitJoinUpTo(text, i - 1) IN
         IF text[i] \in Whitespace THEN prev
         ELSE IF prev # <<>> /\ text[i - 1] \in Whitespace
              THEN prev \o <<" ", text[i]>>
              ELSE Append(prev, text[i])

\* ' '.join(text.split()): runs of whitespace become one space, none is
\* left at either end.
SplitJoin(text) == SplitJoinUpTo(text, Len(text))

\* max_title_length in _get_title_from_tweet
max_title_length == 100

\* tweet.full_text if hasattr(tweet, 'full_text') else tweet.text
TweetText(tweet) ==
    IF "full_text" \in DOMAIN tweet THEN tweet.full_text ELSE tweet.text

RECURSIVE RemoveUrls(_, _)
RemoveUrls(text, urls) ==
    IF urls = <<>> THEN text
    ELSE RemoveUrls(Replace(text, Head(urls).url), Tail(urls))

RECURSIVE RemoveMentions(_, _)
RemoveMentions(text, mentions) ==
    IF mentions = <<>> THEN text
    ELSE RemoveMentions(Replace(text, <<"@">> \o Head(mentions).screen_name),
                        Tail(mentions))

\* TwitterCollector._get_title_from_tweet
GetTitleFromTweet(tweet) ==
    LET text0 == TweetText(tweet)
        text1 == IF "entities" \in DOMAIN tweet /\ "urls" \in DOMAIN tweet.entities
                 THEN RemoveUrls(text0, tweet.entities.urls) ELSE text0
        text2 == IF "entities" \in DOMAIN tweet
                    /\ "user_mentions" \in DOMAIN tweet.entities
                 THEN RemoveMentions(text1, tweet.entities.user_mentions) ELSE text1
        text3 == SplitJoin(text2)
    IN  IF Len(text3) > max_title_length
        THEN SubSeq(text3, 1, max_title_length) \o <<".", ".", ".">>
        ELSE text3

\* The expanded_url of every url entity that has one, in order.
ExpandedUrls(tweet) ==
    IF "entities" \in DOMAIN tweet /\ "urls" \in DOMAIN tweet.entities
    THEN LET with == SelectSeq(tweet.entities.urls,
                               LAMBDA e : "expanded_url" \in DOMAIN e)
         IN  [i \in 1..Len(with) |-> with[i].expanded_url]
    ELSE <<>>

\* The dict built for one tweet.
TweetInfo(tweet) ==
    LET urls == ExpandedUrls(tweet) IN
    [title          |-> GetTitleFromTweet(tweet),
     url            |-> IF urls # <<>> THEN urls[1] ELSE StatusUrl(tweet.id),
     content        |-> TweetText(tweet),
     source         |-> "Twitter",
     score          |-> tweet.favorite_count,
     timestamp      |-> tweet.created_at,
     comments_count |-> tweet.retweet_count,
     twitter_id     |-> tweet.id,
     username       |-> tweet.user.screen_name,
     urls           |-> urls]

RECURSIVE TweetLoop(_, _)
\* for tweet in tweets: a tweet whose id is already in all_tweets is skipped.
TweetLoop(tweets, all_tweets) ==
    IF tweets = <<>> THEN all_tweets
    ELSE LET tweet == Head(tweets) IN
         IF tweet.id \notin {all_tweets[i].twitter_id : i \in 1..Len(all_tweets)}
         THEN TweetLoop(Tail(tweets), Append(all_tweets, TweetInfo(tweet)))
         ELSE TweetLoop(Tail(tweets), all_tweets)

RECURSIVE KeywordLoop(_, _, _)
\* for keyword in self.AI_KEYWORDS: searches[k] is the response of the k-th
\* search; the inner except logs a failed search and goes on.
KeywordLoop(searches, k, all_tweets) ==
    IF k > NumKeywords THEN all_tweets
    ELSE IF ~searches[k].ok
         THEN KeywordLoop(searches, k + 1, all_tweets)
         ELSE KeywordLoop(searches, k + 1, TweetLoop(searches[k].body, all_tweets))

\* time.sleep(2), in milliseconds
twitter_sleep_ms == 2000

RECURSIVE KeywordLoopCalls(_, _, _)
\* The calls and sleeps of the keyword loop: api.search_tweets is called for
\* every keyword; time.sleep is the last statement of the try block,
\* reached when the search returned.
KeywordLoopCalls(searches, k, trace) ==
    IF k > NumKeywords THEN trace
    ELSE LET called == Append(trace, CallEvent(k))
         IN  IF ~searches[k].ok
             THEN KeywordLoopCalls(searches, k + 1, called)
             ELSE KeywordLoopCalls(searches, k + 1,
                                   Append(called, SleepEvent(twitter_sleep_ms)))

RECURSIVE UniqueByUrlLoop(_, _, _)
\* The second pass: seen_urls / unique_tweets.
UniqueByUrlLoop(all_tweets, seen_urls, unique_tweets) ==
    IF all_tweets = <<>> THEN unique_tweets
    ELSE LET tweet == Head(all_tweets)
             url   == tweet.url
         IN  IF url \notin seen_urls
             THEN UniqueByUrlLoop(Tail(all_tweets), seen_urls \cup {url},
                                  Append(unique_tweets, tweet))
             ELSE UniqueByUrlLoop(Tail(all_tweets), seen_urls, unique_tweets)

\* UniqueByUrl with a seen_urls that is never added to: nothing is removed.
UniqueByUrl_NothingSeen(all_tweets) == all_tweets

\* The second dedup pass of TwitterCollector.collect
UniqueByUrl(all_tweets) == UniqueByUrlLoop(all_tweets, {}, <<>>)

\* all_tweets as accumulated by the keyword loop
AllTweets(searches) == KeywordLoop(searches, 1, <<>>)

\* TwitterCollector.collect: credentials are the four constructor arguments,
\* verify_ok tells whether api.verify_credentials() returns, searches are
\* the responses of the keyword searches.
TwitterCollect(credentials, verify_ok, searches) ==
    IF ~AllTruthy(credentials) THEN Returned(<<>>)
    ELSE IF ~verify_ok THEN Returned(<<>>)
         ELSE Returned(UniqueByUrl(AllTweets(searches)))

\* The calls and sleeps of the keyword loop of one collect()
TwitterCollectCalls(credentials, verify_ok, searches) ==
    IF ~AllTruthy(credentials) \/ ~verify_ok THEN <<>>
    ELSE KeywordLoopCalls(searches, 1, <<>>)

\* -------------------------------------------------------------- summarizer
\* Replies openai.ChatCompletion.create may give for one item: the call
\* raises (network, quota), the reply has no choices, or it carries text.
SummaryReplies ==
    {Failure,
     Response([choices |-> <<>>]),
     Response([choices |-> << [message |-> [content |-> <<" "," ">>]] >>]),
     Response([choices |-> << [message |-> [content |-> <<" ","G","P","T",":"," ","s","u","m"," ">>]] >>])}

RECURSIVE LStrip(_)
LStrip(text) ==
    IF text # <<>> /\ Head(text) \in Whitespace THEN LStrip(Tail(text)) ELSE text

RECURSIVE RStrip(_)
RStrip(text) ==
    IF text # <<>> /\ text[Len(text)] \in Whitespace
    THEN RStrip(SubSeq(text, 1, Len(text) - 1)) ELSE text

\* str.strip()
Strip(text) == RStrip(LStrip(text))

\* response.choices[0].message.content.strip(): IndexError without choices
ExtractSummary(reply) ==
    IF ~reply.ok THEN Raised
    ELSE IF Len(reply.body.choices) = 0 THEN Raised
         ELSE Returned(Strip(reply.body.choices[1].message.content))

\* WithSummary relabelling the source of the copy it makes.
WithSummary_Relabel(item, summary) ==
    ("summary_ja" :> summary) @@ [item EXCEPT !.source = "Summarizer"]

\* item_with_summary = item.copy(); item_with_summary['summary_ja'] = summary
WithSummary(item, summary) == ("summary_ja" :> summary) @@ item

\* One pass of the try block for one item: the call, the extraction, the copy.
SummarizeItem(item, reply) ==
    LET summary == ExtractSummary(reply)
    IN  IF summary.raised THEN Raised
        ELSE Returned(WithSummary(item, summary.value))

RECURSIVE SummarizeLoop(_, _, _, _)
\* for idx, item in enumerate(news_items); replies[idx] answers the call made
\* for item idx. The except branch appends the item as it is.
SummarizeLoop(news_items, replies, idx, summarized_items) ==
    IF idx > Len(news_items) THEN summarized_items
    ELSE LET item == news_items[idx]
             done == SummarizeItem(item, replies[idx])
         IN  IF done.raised
             THEN SummarizeLoop(news_items, replies, idx + 1,
                                Append(summarized_items, item))
             ELSE SummarizeLoop(news_items, replies, idx + 1,
                                Append(summarized_items, done.value))

\* time.sleep(1), in milliseconds
summarizer_sleep_ms == 1000

RECURSIVE SummarizeLoopCalls(_, _, _, _)
\* The calls and sleeps of the loop over news_items: ChatCompletion.create
\* is called once for the item; time.sleep is the last statement of the try
\* block, reached when the call returned and the summary was extracted; the
\* except branch makes no call.
SummarizeLoopCalls(news_items, replies, idx, trace) ==
    IF idx > Len(news_items) THEN trace
    ELSE LET called == Append(trace, CallEvent(idx))
         IN  IF SummarizeItem(news_items[idx], replies[idx]).raised
             THEN SummarizeLoopCalls(news_items, replies, idx + 1, called)
             ELSE SummarizeLoopCalls(news_items, replies, idx + 1,
                                     Append(called, SleepEvent(summarizer_sleep_ms)))

RECURSIVE SummarizeLoopCalls_Retry(_, _, _, _)
\* The loop calling the capability a second time when the first call failed.
SummarizeLoopCalls_Retry(news_items, replies, idx, trace) ==
    IF idx > Len(news_items) THEN trace
    ELSE LET called == Append(trace, CallEvent(idx))
         IN  IF SummarizeItem(news_items[idx], replies[idx]).raised
             THEN SummarizeLoopCalls_Retry(news_items, replies, idx + 1,
                                           Append(called, CallEvent(idx)))
             ELSE SummarizeLoopCalls_Retry(news_items, replies, idx + 1,
                                           Append(called, SleepEvent(summarizer_sleep_ms)))

\* SummarizeCalls with a failed call made once more for the same item.
SummarizeCalls_Retry(api_key, news_items, replies) ==
    IF ~Truthy(api_key) THEN <<>>
    ELSE SummarizeLoopCalls_Retry(news_items, replies, 1, <<>>)

\* The calls and sleeps of one summarize(): none without a credential
SummarizeCalls(api_key, news_items, replies) ==
    IF ~Truthy(api_key) THEN <<>>
    ELSE SummarizeLoopCalls(news_items, replies, 1, <<>>)

\* Summarize without the per-item try/except: the first failing call raises.
Summarize_NoExcept(api_key, news_items, replies) ==
    IF ~Truthy(api_key) THEN Returned(news_items)
    ELSE IF \E i \in 1..Len(news_items) : SummarizeItem(news_items[i], replies[i]).raised
         THEN Raised
         ELSE Returned(SummarizeLoop(news_items, replies, 1, <<>>))

\* Summarizer.summarize
Summarize(api_key, news_items, replies) ==
    IF ~Truthy(api_key) THEN Returned(news_items)
    ELSE Returned(SummarizeLoop(news_items, replies, 1, <<>>))

\* ------------------------------------------------------------ output sink
\* OutputManager.output_dir default
output_dir == "output"

\* datetime.now().strftime("%Y%m%d_%H%M%S"): the wall clock of the model
\* counts whole seconds, on which the format is one-to-one; the second
\* count stands for the formatted string.
Strftime(clock) == clock

\* NothingToSave without the check: save() goes on to its writers.
NothingToSave_Never(news_items) == FALSE

\* if not news_items: the list is empty
NothingToSave(news_items) == news_items = <<>>

\* os.path.join(self.output_dir, f"ai_news_{timestamp}.<ext>"): a path is
\* the sequence of its pieces, the empty string the empty sequence.
OutputPath(timestamp, ext) == <<output_dir, "ai_news_", timestamp, ext>>
EmptyPath == <<>>

\* A file on disk
File(path, body) == [path |-> path, body |-> body]

\* _save_json: json.dump(news_items, ...) keeps every key of every item
SaveJson(news_items, timestamp) ==
    File(OutputPath(timestamp, "json"), [records |-> news_items])

\* The columns _save_csv keeps, in this order, when the frame has them
CsvColumns == <<"title", "url", "source", "score", "timestamp", "summary_ja">>

\* A cell of the frame for a key the row's dict lacks
NaN == <<"NaN">>

\* _save_csv: pd.DataFrame(news_items) has the union of the items' keys as
\* columns and one row per item; df[columns].to_csv writes those rows.
SaveCsv(news_items, timestamp) ==
    LET df_columns == UNION {DOMAIN news_items[i] : i \in 1..Len(news_items)}
        columns    == SelectSeq(CsvColumns, LAMBDA col : col \in df_columns)
        Row(item)  == [k \in 1..Len(columns) |-> Get(item, columns[k], NaN)]
    IN  File(OutputPath(timestamp, "csv"),
             [header |-> columns,
              rows   |-> [i \in 1..Len(news_items) |-> Row(news_items[i])]])

\* Placeholders of the text and html forms
NoTitle == <<"NoTitle">>
NoSummary == <<"NoSummary">>

\* SaveText naming its file by the clock it reads for the header instead of
\* by the run timestamp it is given.
SaveText_OwnClock(news_items, timestamp, clock) ==
    File(OutputPath(Strftime(clock), "txt"),
         [written_at |-> clock,
          blocks |-> [i \in 1..Len(news_items) |->
                        [idx     |-> i,
                         title   |-> Get(news_items[i], "title", NoTitle),
                         source  |-> Get(news_items[i], "source", "unknown"),
                         score   |-> Get(news_items[i], "score", 0),
                         url     |-> Get(news_items[i], "url", "unknown"),
                         summary |-> Get(news_items[i], "summary_ja", NoSummary)]]])

\* _save_text: a header with the time of writing, then one numbered block
\* per item.
SaveText(news_items, timestamp, clock) ==
    File(OutputPath(timestamp, "txt"),
         [written_at |-> clock,
          blocks |-> [i \in 1..Len(news_items) |->
                        [idx     |-> i,
                         title   |-> Get(news_items[i], "title", NoTitle),
                         source  |-> Get(news_items[i], "source", "unknown"),
                         score   |-> Get(news_items[i], "score", 0),
                         url     |-> Get(news_items[i], "url", "unknown"),
                         summary |-> Get(news_items[i], "summary_ja", NoSummary)]]])

\* The date shown for an item: formatted from the timestamp, or the
\* "unknown" placeholder when the key is absent or the value is 0.
DateStr(item) ==
    IF "timestamp" \in DOMAIN item /\ item.timestamp # 0
    THEN [known |-> TRUE, at |-> item.timestamp]
    ELSE [known |-> FALSE]

\* source.lower().replace(' ', ''), used as the css class of the label
SourceClass(source) ==
    CASE source = "Hacker News"  -> "hackernews"
      [] source = "Product Hunt" -> "producthunt"
      [] source = "Twitter"      -> "twitter"
      [] OTHER                   -> source

\* _save_html: one news-item block per item.
SaveHtml(news_items, timestamp, clock) ==
    File(OutputPath(timestamp, "html"),
         [generated |-> clock,
          items |-> [i \in 1..Len(news_items) |->
                        [title        |-> Get(news_items[i], "title", NoTitle),
                         source       |-> Get(news_items[i], "source", "unknown"),
                         source_class |-> SourceClass(Get(news_items[i], "source", "unknown")),
                         date_str     |-> DateStr(news_items[i]),
                         score        |-> Get(news_items[i], "score", 0),
                         summary      |-> Get(news_items[i], "summary_ja", NoSummary),
                         url          |-> Get(news_items[i], "url", "#")]]])

\* Number of records a written file holds
RecordCount(file) ==
    CASE file.path[4] = "json" -> Len(file.body.records)
      [] file.path[4] = "csv"  -> Len(file.body.rows)
      [] file.path[4] = "txt"  -> Len(file.body.blocks)
      [] OTHER                 -> Len(file.body.items)

\* open(path, 'w') / to_csv(path): the file at path is created or replaced.
WriteFile(disk, file) == {f \in disk : f.path # file.path} \cup {file}

\* ------------------------------------------------------------- the run
\* main() of src/src/main.py as a state machine over its statements.
VARIABLES
    pc,               \* the statement of main() (or of save()) to run next
    hn_news,          \* main's locals
    ph_news,
    twitter_news,
    all_news,
    ai_news,
    summarized_news,
    output_path,
    result,           \* what main() returned: "running" until it returns
    timestamp,        \* save()'s local: the run timestamp of the file names
    paths,            \* save()'s local: the paths its writers returned so far
    now,              \* the wall clock, in seconds since save() was called
    disk,             \* the files in the output directory
    call,             \* the arguments and replies of the call just made
    trace,            \* the calls and sleeps of that call's rate-limited loop
    stages,           \* the stages main() has invoked, in order
    absorbed,         \* the stages that caught a failure and went on
    escaped           \* the stage an exception left to reach main's except

vars == <<pc, hn_news, ph_news, twitter_news, all_news, ai_news,
          summarized_news, output_path, result, timestamp, paths, now, disk,
          call, trace, stages, absorbed, escaped>>

NoCall == [stage |-> "none"]
NoTimestamp == -1

Init ==
    /\ pc = "hn_collect"
    /\ hn_news = <<>>
    /\ ph_news = <<>>
    /\ twitter_news = <<>>
    /\ all_news = <<>>
    /\ ai_news = <<>>
    /\ summarized_news = <<>>
    /\ output_path = EmptyPath
    /\ result = "running"
    /\ timestamp = NoTimestamp
    /\ paths = <<>>
    /\ now = 0
    /\ disk = {}
    /\ call = NoCall
    /\ trace = <<>>
    /\ stages = <<>>
    /\ absorbed = {}
    /\ escaped = "none"

\* MainExcept reporting success: the except branch returns True.
MainExcept_ReturnsTrue(stage) ==
    /\ escaped' = stage
    /\ result' = "True"
    /\ pc' = "done"

\* except Exception in main(): the error is logged and main returns False.
MainExcept(stage) ==
    /\ escaped' = stage
    /\ result' = "False"
    /\ pc' = "done"

\* hn_news = HackerNewsCollector().collect()
CollectHackerNews ==
    /\ pc = "hn_collect"
    /\ \E top, new \in {Failure} \cup {Response(ids) : ids \in IdLists} :
       \E failing \in IF top.ok /\ new.ok
                      THEN SUBSET Range(HNStoryIds(top.body, new.body))
                      ELSE {{}} :
          LET r == HNCollect(top, new, failing) IN
          /\ call' = [stage |-> "hn", top |-> top, new |-> new, failing |-> failing]
          /\ trace' = HNCollectCalls(top, new, failing)
          /\ stages' = Append(stages, "hn")
          /\ absorbed' = IF ~top.ok \/ ~new.ok \/ failing # {}
                         THEN absorbed \cup {"hn"} ELSE absorbed
          /\ IF r.raised
             THEN MainExcept("hn") /\ UNCHANGED hn_news
             ELSE /\ hn_news' = r.value
                  /\ pc' = "hn_log"
                  /\ UNCHANGED <<result, escaped>>
    /\ UNCHANGED <<ph_news, twitter_news, all_news, ai_news, summarized_news,
                   output_path, timestamp, paths, now, disk>>

\* The day responses a run may see: one per day_offset, none when the
\* credential is missing and no request is made.
PHDaySequences(api_key) ==
    IF ~Truthy(api_key) THEN {<<>>}
    ELSE {days \in [1..days_back -> UNION {PHDayResponses(d) : d \in 0..(days_back - 1)}] :
             \A d \in 1..days_back : days[d] \in PHDayResponses(d - 1)}

\* ph_news = ProductHuntCollector(api_key=os.getenv(...)).collect()
CollectProductHunt ==
    /\ pc = "ph_collect"
    /\ \E api_key \in EnvValues :
       \E days \in PHDaySequences(api_key) :
          LET r == PHCollect(api_key, days) IN
          /\ call' = [stage |-> "ph", api_key |-> api_key, days |-> days]
          /\ trace' = <<>>
          /\ stages' = Append(stages, "ph")
          /\ absorbed' = IF ~Truthy(api_key) \/ PHTryBody(days).raised
                         THEN absorbed \cup {"ph"} ELSE absorbed
          /\ IF r.raised
             THEN MainExcept("ph") /\ UNCHANGED ph_news
             ELSE /\ ph_news' = r.value
                  /\ pc' = "ph_log"
                  /\ UNCHANGED <<result, escaped>>
    /\ UNCHANGED <<hn_news, twitter_news, all_news, ai_news, summarized_news,
                   output_path, timestamp, paths, now, disk>>

\* The search responses a run may see: one per keyword, none when a
\* credential is missing or the credentials are refused.
SearchSequences(credentials, verify_ok) ==
    IF AllTruthy(credentials) /\ verify_ok
    THEN [1..NumKeywords -> SearchResponses]
    ELSE {<<>>}

\* twitter_news = TwitterCollector(...).collect()
CollectTwitter ==
    /\ pc = "tw_collect"
    /\ \E credentials \in TwitterCredentials :
       \E verify_ok \in IF AllTruthy(credentials) THEN BOOLEAN ELSE {FALSE} :
       \E searches \in SearchSequences(credentials, verify_ok) :
          LET r == TwitterCollect(credentials, verify_ok, searches) IN
          /\ call' = [stage |-> "tw", credentials |-> credentials,
                      verify_ok |-> verify_ok, searches |-> searches]
          /\ trace' = TwitterCollectCalls(credentials, verify_ok, searches)
          /\ stages' = Append(stages, "tw")
          /\ absorbed' = IF \/ ~AllTruthy(credentials)
                            \/ ~verify_ok
                            \/ \E k \in 1..Len(searches) : ~searches[k].ok
                         THEN absorbed \cup {"tw"} ELSE absorbed
          /\ IF r.raised
             THEN MainExcept("tw") /\ UNCHANGED twitter_news
             ELSE /\ twitter_news' = r.value
                  /\ pc' = "tw_log"
                  /\ UNCHANGED <<result, escaped>>
    /\ UNCHANGED <<hn_news, ph_news, all_news, ai_news, summarized_news,
                   output_path, timestamp, paths, now, disk>>

\* The statement after a logger.info line that follows a stage call
AfterLog(at) ==
    CASE at = "hn_log" -> "ph_collect"
      [] at = "ph_log" -> "tw_collect"
      [] at = "tw_log" -> "merge"
      [] at = "filter_log" -> "summarize"
      [] at = "summarize_log" -> "save"

\* logger.info(...) after a stage has returned: the callee's frame is gone.
LogStage ==
    /\ pc \in {"hn_log", "ph_log", "tw_log", "filter_log", "summarize_log"}
    /\ pc' = AfterLog(pc)
    /\ call' = NoCall
    /\ trace' = <<>>
    /\ UNCHANGED <<hn_news, ph_news, twitter_news, all_news, ai_news,
                   summarized_news, output_path, result, timestamp, paths, now,
                   disk, stages, absorbed, escaped>>

\* Merge with the social-stream records put first.
Merge_TwitterFirst ==
    /\ pc = "merge"
    /\ all_news' = twitter_news \o hn_news \o ph_news
    /\ pc' = "filter"
    /\ UNCHANGED <<hn_news, ph_news, twitter_news, ai_news, summarized_news,
                   output_path, result, timestamp, paths, now, disk, call,
                   trace, stages, absorbed, escaped>>

\* all_news = hn_news + ph_news + twitter_news
Merge ==
    /\ pc = "merge"
    /\ all_news' = hn_news \o ph_news \o twitter_news
    /\ pc' = "filter"
    /\ UNCHANGED <<hn_news, ph_news, twitter_news, ai_news, summarized_news,
                   output_path, result, timestamp, paths, now, disk, call,
                   trace, stages, absorbed, escaped>>

\* ai_news = AIContentFilter().filter(all_news)
FilterStage ==
    /\ pc = "filter"
    /\ ai_news' = Filter(all_news)
    /\ call' = [stage |-> "filter", news_items |-> all_news]
    /\ trace' = <<>>
    /\ stages' = Append(stages, "filter")
    /\ pc' = "filter_log"
    /\ UNCHANGED <<hn_news, ph_news, twitter_news, all_news, summarized_news,
                   output_path, result, timestamp, paths, now, disk, absorbed,
                   escaped>>

\* The replies a run may see: one per item, none when the credential is
\* missing and no call is made.
ReplySequences(api_key, news_items) ==
    IF Truthy(api_key) THEN [1..Len(news_items) -> SummaryReplies] ELSE {<<>>}

\* summarized_news = Summarizer(api_key=os.getenv(...)).summarize(ai_news)
SummarizeStage ==
    /\ pc = "summarize"
    /\ \E api_key \in EnvValues :
       \E replies \in ReplySequences(api_key, ai_news) :
          LET r == Summarize(api_key, ai_news, replies) IN
          /\ call' = [stage |-> "summarize", api_key |-> api_key,
                      news_items |-> ai_news, replies |-> replies]
          /\ trace' = SummarizeCalls(api_key, ai_news, replies)
          /\ stages' = Append(stages, "summarize")
          /\ absorbed' = IF \/ ~Truthy(api_key)
                            \/ \E i \in 1..Len(replies) :
                                  SummarizeItem(ai_news[i], replies[i]).raised
                         THEN absorbed \cup {"summarize"} ELSE absorbed
          /\ IF r.raised
             THEN MainExcept("summarize") /\ UNCHANGED summarized_news
             ELSE /\ summarized_news' = r.value
                  /\ pc' = "summarize_log"
                  /\ UNCHANGED <<result, escaped>>
    /\ UNCHANGED <<hn_news, ph_news, twitter_news, all_news, ai_news,
                   output_path, timestamp, paths, now, disk>>

\* output_manager.save(summarized_news), up to the first writer: an empty
\* list is answered with '' at once; otherwise the run timestamp is read
\* off the clock.
SaveBegin ==
    /\ pc = "save"
    /\ stages' = Append(stages, "save")
    /\ call' = [stage |-> "save", news_items |-> summarized_news]
    /\ trace' = <<>>
    /\ IF NothingToSave(summarized_news)
       THEN /\ output_path' = EmptyPath
            /\ pc' = "return"
            /\ UNCHANGED timestamp
       ELSE /\ timestamp' = Strftime(now)
            /\ pc' = "save_json"
            /\ UNCHANGED output_path
    /\ UNCHANGED <<hn_news, ph_news, twitter_news, all_news, ai_news,
                   summarized_news, result, paths, now, disk, absorbed, escaped>>

\* A file whose writing was cut short
Partial(path) == File(path, [partial |-> TRUE])

\* Writer removing the files of the run when a writer raises.
Writer_RollsBack(at, next, clock, file) ==
    /\ pc = at
    /\ now' = clock
    /\ \E outcome \in {"ok", "open", "write"} :
          IF outcome = "ok"
          THEN /\ disk' = WriteFile(disk, file)
               /\ paths' = Append(paths, file.path)
               /\ pc' = next
               /\ UNCHANGED <<result, escaped>>
          ELSE /\ disk' = {}
               /\ MainExcept("save")
               /\ UNCHANGED paths
    /\ UNCHANGED <<hn_news, ph_news, twitter_news, all_news, ai_news,
                   summarized_news, output_path, timestamp, call, trace,
                   stages, absorbed>>

\* One writer of save(): it writes its file and returns its path, or it
\* raises, before the file is opened ("open") or while writing ("write");
\* nothing in save() catches, so the exception reaches main's except.
\* clock is the wall clock once the writer is through.
Writer(at, next, clock, file) ==
    /\ pc = at
    /\ now' = clock
    /\ \E outcome \in {"ok", "open", "write"} :
          IF outcome = "ok"
          THEN /\ disk' = WriteFile(disk, file)
               /\ paths' = Append(paths, file.path)
               /\ pc' = next
               /\ UNCHANGED <<result, escaped>>
          ELSE /\ disk' = IF outcome = "write"
                          THEN WriteFile(disk, Partial(file.path)) ELSE disk
               /\ MainExcept("save")
               /\ UNCHANGED paths
    /\ UNCHANGED <<hn_news, ph_news, twitter_news, all_news, ai_news,
                   summarized_news, output_path, timestamp, call, trace,
                   stages, absorbed>>

\* 'json': self._save_json(news_items, timestamp)
WriteJson ==
    Writer("save_json", "save_csv", now, SaveJson(summarized_news, timestamp))

\* 'csv': self._save_csv(news_items, timestamp)
WriteCsv ==
    Writer("save_csv", "save_txt", now, SaveCsv(summarized_news, timestamp))

\* 'txt': self._save_text(news_items, timestamp); it reads the clock again
WriteText ==
    \E t \in now..MaxClock :
        Writer("save_txt", "save_html", t, SaveText(summarized_news, timestamp, t))

\* 'html': self._save_html(news_items, timestamp); it reads the clock again
WriteHtml ==
    \E t \in now..MaxClock :
        Writer("save_html", "save_return", t, SaveHtml(summarized_news, timestamp, t))

\* return paths['json']
SaveReturn ==
    /\ pc = "save_return"
    /\ output_path' = paths[1]
    /\ pc' = "return"
    /\ UNCHANGED <<hn_news, ph_news, twitter_news, all_news, ai_news,
                   summarized_news, result, timestamp, paths, now, disk, call,
                   trace, stages, absorbed, escaped>>

\* logger.info(...); return True
MainReturn ==
    /\ pc = "return"
    /\ result' = "True"
    /\ pc' = "done"
    /\ call' = NoCall
    /\ trace' = <<>>
    /\ UNCHANGED <<hn_news, ph_news, twitter_news, all_news, ai_news,
                   summarized_news, output_path, timestamp, paths, now, disk,
                   stages, absorbed, escaped>>

Next ==
    \/ CollectHackerNews
    \/ LogStage
    \/ CollectProductHunt
    \/ CollectTwitter
    \/ Merge
    \/ FilterStage
    \/ SummarizeStage
    \/ SaveBegin
    \/ WriteJson
    \/ WriteCsv
    \/ WriteText
    \/ WriteHtml
    \/ SaveReturn
    \/ MainReturn

Spec == Init /\ [][Next]_vars

\* ------------------------------------------------------------ the claims
Collectors == {"hn", "ph", "tw"}
AllStages == <<"hn", "ph", "tw", "filter", "summarize", "save">>

\* C1: each of the three collectors' collect() never raises to its caller:
\* whatever provider failures, per-item failures and missing credentials it
\* meets, no exception leaves a collector to reach main's except, and after
\* the call main holds the sequence it returned and runs on.
C1_CollectNeverRaises ==
    /\ escaped \notin Collectors
    /\ pc \in {"hn_log", "ph_log", "tw_log"} => result = "running"

\* C1 witness: the third collector has returned although all three met a
\* failure, the last one a missing credential.
C1_Witness ==
    /\ pc = "tw_log"
    /\ Collectors \subseteq absorbed
    /\ ~AllTruthy(call.credentials)
    /\ hn_news # <<>>

\* The posts the day requests delivered, flattened (all requests succeeded)
PHFetchedPosts(days) == PHDayLoop(days, 0, <<>>).value

\* The records of the posts whose own conversion succeeds, in order
PHRecordsOfGoodPosts(posts) ==
    LET good == SelectSeq(posts, LAMBDA post : ~PHNewsItem(post).raised)
    IN  [i \in 1..Len(good) |-> PHNewsItem(good[i]).value]

\* The records of the accepted items whose own fetch succeeds, in order
HNRecordsOfGoodItems(story_ids, failing) ==
    LET good == SelectSeq(story_ids,
                          LAMBDA id : id \notin failing /\ HNAccepts(HNItem(id)))
    IN  [i \in 1..Len(good) |-> HNStory(HNItem(good[i]), good[i])]

\* C2: when fetching or converting one raw item fails, only that item is
\* lost: collect() returns the records built from every other item, both
\* in the forum-ranking collector (detail fetches) and in the product-launch
\* collector (post conversion).
C2_ItemFailureIsolated ==
    /\ (pc = "hn_log" /\ call.top.ok /\ call.new.ok) =>
          hn_news = HNRecordsOfGoodItems(
                        HNStoryIds(call.top.body, call.new.body), call.failing)
    /\ (pc = "ph_log" /\ Truthy(call.api_key)
          /\ \A d \in 1..Len(call.days) : call.days[d].ok) =>
          ph_news = PHRecordsOfGoodPosts(PHFetchedPosts(call.days))

\* C3: summarize(X) returns a sequence of the length of X in the same order,
\* whose i-th element is the i-th input unchanged or the i-th input plus a
\* non-empty summary.
C3_SummarizeKeepsItemsNonEmptySummary ==
    pc = "summarize_log" =>
        /\ Len(summarized_news) = Len(call.news_items)
        /\ \A i \in 1..Len(call.news_items) :
              \/ summarized_news[i] = call.news_items[i]
              \/ /\ "summary_ja" \in DOMAIN summarized_news[i]
                 /\ summarized_news[i].summary_ja # <<>>
                 /\ summarized_news[i] =
                       WithSummary(call.news_items[i], summarized_news[i].summary_ja)

RECURSIVE IsSubsequence(_, _)
\* sub can be got from full by removals alone
IsSubsequence(sub, full) ==
    IF sub = <<>> THEN TRUE
    ELSE IF full = <<>> THEN FALSE
         ELSE IF Head(sub) = Head(full)
              THEN IsSubsequence(Tail(sub), Tail(full))
              ELSE IsSubsequence(sub, Tail(full))

\* C4: filter(X) is a subsequence of X (removals only, order kept, records
\* unaltered) and filtering the result again changes nothing.
C4_FilterSubsequenceIdempotent ==
    pc = "filter_log" =>
        /\ IsSubsequence(ai_news, call.news_items)
        /\ Filter(ai_news) = ai_news

\* C4 witness: the filter kept at least two records and removed at least one.
C4_Witness ==
    /\ pc = "filter_log"
    /\ Len(ai_news) >= 2
    /\ Len(ai_news) < Len(call.news_items)

\* C5: a record is in filter's result exactly when its score is at least
\* min_score and its text matches a vocabulary term; with score
\* min_score - 1 it is out whatever its text, with score min_score and a
\* match it is in.
C5_ScoreFloorAndKeyword ==
    pc = "filter_log" =>
        \A i \in 1..Len(call.news_items) :
            LET item  == call.news_items[i]
                score == Get(item, "score", 0)
                kept  == item \in Range(ai_news)
            IN  /\ kept <=> (score >= min_score /\ IsAIRelated(item))
                /\ score = min_score - 1 => ~kept
                /\ (score = min_score /\ IsAIRelated(item)) => kept

\* C5 witness: the filter saw a matching record one below the floor and a
\* matching record exactly at the floor.
C5_Witness ==
    /\ pc = "filter_log"
    /\ \E i, j \in 1..Len(call.news_items) :
          /\ call.news_items[i].score = min_score - 1
          /\ IsAIRelated(call.news_items[i])
          /\ call.news_items[j].score = min_score
          /\ IsAIRelated(call.news_items[j])
          /\ call.news_items[j] \in Range(ai_news)

\* No two records of the sequence have the same url
DistinctUrls(records) ==
    \A i, j \in 1..Len(records) : i # j => records[i].url # records[j].url

\* The records that are the first of their url, in order
FirstSeenPerUrl(records) ==
    LET upto[i \in 0..Len(records)] ==
            IF i = 0 THEN <<>>
            ELSE IF \E j \in 1..(i - 1) : records[j].url = records[i].url
                 THEN upto[i - 1]
                 ELSE Append(upto[i - 1], records[i])
    IN  upto[Len(records)]

\* C6: the second dedup pass of the social-stream collector keeps exactly
\* the first record of each distinct url, in first-seen order, so what
\* collect() returns never holds two records with the same url.
C6_TwitterUniqueByUrl ==
    /\ DistinctUrls(twitter_news)
    /\ (pc = "tw_log" /\ call.verify_ok) =>
          /\ twitter_news = FirstSeenPerUrl(AllTweets(call.searches))
          /\ {twitter_news[i].url : i \in 1..Len(twitter_news)} =
                {t.url : t \in Range(AllTweets(call.searches))}

\* C6 witness: the accumulated list held a repeated url and the pass still
\* returned two records.
C6_Witness ==
    /\ pc = "tw_log"
    /\ call.verify_ok
    /\ ~DistinctUrls(AllTweets(call.searches))
    /\ Len(twitter_news) >= 2

\* At most one record per distinct non-empty url
DistinctNonEmptyUrls(records) ==
    \A i, j \in 1..Len(records) :
        (i # j /\ records[i].url # "") => records[i].url # records[j].url

\* C7: url is the cross-source dedup key: the merged sequence handed to the
\* filter, and the sequence the sink writes, hold at most one record per
\* distinct non-empty url, also across collectors.
C7_MergedUrlsDistinct ==
    /\ DistinctNonEmptyUrls(all_news)
    /\ DistinctNonEmptyUrls(summarized_news)

\* save() has returned to main, which has not yet returned or has returned True
SaveReturned ==
    /\ pc \in {"return", "done"}
    /\ escaped = "none"

\* The extensions of the four formats, in writing order
Formats == <<"json", "csv", "txt", "html">>

\* C8: a save(X) of a non-empty X that returns has written exactly four
\* files, one per format, all named with the one run timestamp, each holding
\* Len(X) records, and returns the non-empty path of the json file.
C8_SaveWritesFourFiles ==
    (SaveReturned /\ summarized_news # <<>>) =>
        /\ Cardinality(disk) = 4
        /\ {f.path : f \in disk} = {OutputPath(timestamp, Formats[k]) : k \in 1..4}
        /\ \A f \in disk : "partial" \notin DOMAIN f.body
                           /\ RecordCount(f) = Len(summarized_news)
        /\ output_path # EmptyPath
        /\ output_path = OutputPath(timestamp, "json")
        /\ \E f \in disk : f.path = output_path /\ f.body.records = summarized_news

\* C8 witness: save returned after writing two or more records while the
\* clock moved on during the writes.
C8_Witness ==
    /\ SaveReturned
    /\ Len(summarized_news) >= 2
    /\ Cardinality(disk) = 4
    /\ now > timestamp

\* C9: with an empty list save() returns '' and writes no file, and the run
\* does not crash: main completes and returns True.
C9_EmptySaveNoFiles ==
    ("save" \in Range(stages) /\ summarized_news = <<>>) =>
        /\ pc \in {"return", "done"}
        /\ output_path = EmptyPath
        /\ disk = {}
        /\ escaped = "none"
        /\ pc = "done" => result = "True"

\* C9 witness: main has returned True after save() was given an empty list
\* although a collector had delivered records.
C9_Witness ==
    /\ pc = "done"
    /\ result = "True"
    /\ summarized_news = <<>>
    /\ "save" \in Range(stages)
    /\ all_news # <<>>

\* C10: whatever collectors fail and whichever summarization calls fail,
\* main() invokes every collector, the filter, the summarizer and the sink,
\* in that order, on the records that survived, and returns True; it
\* returns False only when an exception escaped a stage, which only the
\* sink lets happen.
C10_RunCompletesDespiteFailures ==
    pc = "done" =>
        /\ stages = AllStages
        /\ escaped \in {"none", "save"}
        /\ result = "False" <=> escaped # "none"
        /\ result = "True" <=> escaped = "none"
        /\ all_news = hn_news \o ph_news \o twitter_news
        /\ IsSubsequence(ai_news, all_news)
        /\ Len(summarized_news) = Len(ai_news)
        /\ (result = "True" /\ summarized_news # <<>>) =>
              \E f \in disk : /\ f.path = output_path
                              /\ f.body.records = summarized_news

\* C10 witness: main returned True and wrote files although every collector
\* and the summarizer had met a failure.
C10_Witness ==
    /\ pc = "done"
    /\ result = "True"
    /\ absorbed = {"hn", "ph", "tw", "summarize"}
    /\ disk # {}

\* The writers of save() that returned, counted by the paths they gave back
WritersReturned == Len(paths)

\* C11: an output write failure is not isolated: when the writer of any one
\* of the four formats raises, before or while writing, nothing in save()
\* catches it, save() returns no path, and main() returns False; a run in
\* which fewer than four writers returned, or which left a truncated file,
\* is never reported as a success.
C11_WriteFailurePropagates ==
    /\ escaped = "save" =>
          /\ pc = "done"
          /\ result = "False"
          /\ output_path = EmptyPath
          /\ WritersReturned < 4
    /\ (pc = "done" /\ summarized_news # <<>> /\ WritersReturned < 4) =>
          result = "False"
    /\ (\E f \in disk : "partial" \in DOMAIN f.body) => result = "False"

\* C11 witness: the txt writer failed while writing, after the json and csv
\* writers had returned, and main returned False.
C11_Witness ==
    /\ pc = "done"
    /\ escaped = "save"
    /\ result = "False"
    /\ WritersReturned = 2
    /\ Partial(OutputPath(timestamp, "txt")) \in disk

\* s is an initial part of t
IsPrefix(s, t) == Len(s) <= Len(t) /\ s = SubSeq(t, 1, Len(s))

\* The statement of main() that invokes each stage, in the order of AllStages
StageCalls == <<"hn_collect", "ph_collect", "tw_collect", "filter", "summarize", "save">>

\* C12: the stages run strictly in the order forum-ranking collect,
\* product-launch collect, social-stream collect, filter, summarize, save:
\* a stage is entered only from its own call statement, after the stage
\* before it has returned, and none is entered twice; what a collector
\* returned stays as it is, and the sequence given to the filter is the
\* forum-ranking records, then the product-launch records, then the
\* social-stream records, each block as its collector returned it.
C12_StagesInOrder ==
    [][ /\ IsPrefix(stages', AllStages)
        /\ stages' # stages =>
              /\ Len(stages') = Len(stages) + 1
              /\ pc = StageCalls[Len(stages')]
              /\ call = NoCall
        /\ pc' = "hn_log" =>
              hn_news' = HNCollect(call'.top, call'.new, call'.failing).value
        /\ pc' = "ph_log" =>
              ph_news' = PHCollect(call'.api_key, call'.days).value
        /\ pc' = "tw_log" =>
              twitter_news' = TwitterCollect(call'.credentials, call'.verify_ok,
                                             call'.searches).value
        /\ pc # "hn_collect" => hn_news' = hn_news
        /\ pc # "ph_collect" => ph_news' = ph_news
        /\ pc # "tw_collect" => twitter_news' = twitter_news
        /\ pc = "filter" =>
              /\ call'.news_items = hn_news \o ph_news \o twitter_news
              /\ stages = <<"hn", "ph", "tw">>
      ]_vars

\* C12 witness: the filter has been given three non-empty blocks, the
\* forum-ranking block differing from the social-stream block, in source
\* order.
C12_Witness ==
    /\ pc = "filter_log"
    /\ hn_news # <<>> /\ ph_news # <<>> /\ twitter_news # <<>>
    /\ hn_news # twitter_news
    /\ call.news_items = hn_news \o ph_news \o twitter_news
    /\ stages = <<"hn", "ph", "tw", "filter">>

\* The files of the run that were written in full
CompleteFiles == {f \in disk : "partial" \notin DOMAIN f.body}

\* C16: save() is not all-or-nothing: the writers run in the order json,
\* csv, txt, html, each after the one before it returned; when a writer
\* raises, save() returns no path, and the files of the formats written
\* before it stay on disk in full, so that a run reported as failed leaves
\* behind the files of the first one, two or three formats.
C16_SavePartialFilesStay ==
    LET complete == CompleteFiles
        returned == WritersReturned
    IN  /\ paths = [k \in 1..returned |-> OutputPath(timestamp, Formats[k])]
        /\ {f.path : f \in complete} = Range(paths)
        /\ \A f \in complete : RecordCount(f) = Len(summarized_news)
        /\ \A f \in disk \ complete :
              /\ escaped = "save"
              /\ f.path = OutputPath(timestamp, Formats[returned + 1])
        /\ escaped = "save" =>
              /\ result = "False"
              /\ output_path = EmptyPath
              /\ returned \in 0..3
              /\ Cardinality(complete) = returned

\* C16 witness: the html writer raised before opening its file; the run is
\* reported as failed and the json, csv and txt files are on disk.
C16_Witness ==
    /\ pc = "done"
    /\ result = "False"
    /\ escaped = "save"
    /\ output_path = EmptyPath
    /\ Cardinality(disk) = 3
    /\ {f.path[4] : f \in CompleteFiles} = {"json", "csv", "txt"}

\* What the outbound calls of a trace were made for, in the order made
CallArgs(events) ==
    LET calls == SelectSeq(events, LAMBDA e : e.kind = "call")
    IN  [i \in 1..Len(calls) |-> calls[i].arg]

\* C13: with a credential, summarize() calls the summarization capability
\* exactly once per input record, in input order, and makes no second call
\* for a record whose call failed; without a credential it makes no call
\* and returns the input sequence unchanged.
C13_OneCallPerRecordNoRetry ==
    pc = "summarize_log" =>
        IF Truthy(call.api_key)
        THEN CallArgs(trace) = [i \in 1..Len(call.news_items) |-> i]
        ELSE /\ trace = <<>>
             /\ summarized_news = call.news_items

\* C13 witness: with a credential and two or more records, the call for
\* the first record raised and the call for a later one returned a summary.
C13_Witness ==
    /\ pc = "summarize_log"
    /\ Truthy(call.api_key)
    /\ Len(call.news_items) >= 2
    /\ ~call.replies[1].ok
    /\ CallArgs(trace) = [i \in 1..Len(call.news_items) |-> i]
    /\ \E i \in 2..Len(summarized_news) : "summary_ja" \in DOMAIN summarized_news[i]

\* Between every two successive calls of the trace there is a sleep
DelayBetweenCalls(events) ==
    \A i \in 1..(Len(events) - 1) :
        events[i].kind = "call" => events[i + 1].kind = "sleep"

\* C14: in each rate-limited loop (forum-ranking detail fetches,
\* social-stream keyword searches, summarizer calls) a delay step lies
\* between every two successive outbound calls, whichever of the calls
\* succeed or fail.
C14_DelayBetweenSuccessiveCalls ==
    pc \in {"hn_log", "tw_log", "summarize_log"} => DelayBetweenCalls(trace)

\* No record of the sequence carries a summary
NoSummaryIn(records) ==
    \A i \in 1..Len(records) : "summary_ja" \notin DOMAIN records[i]

\* after agrees with before on every field of before and adds at most the
\* summary
SameButSummary(before, after) ==
    /\ DOMAIN before \subseteq DOMAIN after
    /\ DOMAIN after \subseteq DOMAIN before \cup {"summary_ja"}
    /\ \A k \in DOMAIN before : after[k] = before[k]

\* The records as the collectors built them, the filter passed them on and
\* the summarizer returned them, in every state of the run
RecordFieldsKept ==
    /\ NoSummaryIn(hn_news) /\ NoSummaryIn(ph_news) /\ NoSummaryIn(twitter_news)
    /\ NoSummaryIn(all_news) /\ NoSummaryIn(ai_news)
    /\ "filter" \in Range(stages) =>
          /\ all_news = hn_news \o ph_news \o twitter_news
          /\ IsSubsequence(ai_news, all_news)
    /\ "summarize" \in Range(stages) =>
          /\ Len(summarized_news) = Len(ai_news)
          /\ \A i \in 1..Len(ai_news) : SameButSummary(ai_news[i], summarized_news[i])
    /\ \A f \in CompleteFiles :
          /\ f.path[4] = "json" => f.body.records = summarized_news
          /\ f.path[4] = "txt" =>
                \A i \in 1..Len(summarized_news) :
                    /\ f.body.blocks[i].summary =
                          Get(summarized_news[i], "summary_ja", NoSummary)
                    /\ f.body.blocks[i].source = summarized_news[i].source
          /\ f.path[4] = "html" =>
                \A i \in 1..Len(summarized_news) :
                    f.body.items[i].summary =
                        Get(summarized_news[i], "summary_ja", NoSummary)

\* A step changes a sequence of records only in the statement that assigns it
RecordsFrame ==
    /\ pc # "hn_collect" => hn_news' = hn_news
    /\ pc # "ph_collect" => ph_news' = ph_news
    /\ pc # "tw_collect" => twitter_news' = twitter_news
    /\ pc # "merge" => all_news' = all_news
    /\ pc # "filter" => ai_news' = ai_news
    /\ pc # "summarize" => summarized_news' = summarized_news

\* C15: from its construction by a collector to its serialization by the
\* sink, a record's fields other than the summary never change: the filter
\* passes records on unmodified, summarize leaves its input records as they
\* are and each output record equals its input record on every field,
\* source included, except the added summary; no stage before the
\* summarizer sets a summary and no stage after it clears or alters one.
C15_RecordFieldsFrame == []RecordFieldsKept /\ [][RecordsFrame]_vars

\* C15 witness: the run ended with two or more records written, one with a
\* summary added and one left as the filter passed it on.
C15_Witness ==
    /\ pc = "done"
    /\ result = "True"
    /\ Len(summarized_news) >= 2
    /\ \E i, j \in 1..Len(summarized_news) :
          /\ "summary_ja" \in DOMAIN summarized_news[i]
          /\ summarized_news[i] # ai_news[i]
          /\ summarized_news[j] = ai_news[j]
    /\ Cardinality(CompleteFiles) = 4

====
